---- MODULE Spec2Model ----
(***************************************************************************)
(* Model of src/src/services/enhanced_validation_system.py                 *)
(* (EnhancedValidationSystem): the progressive-tolerance validator, its    *)
(* five component scorers, the emergency and forced verdicts and the       *)
(* output cleaner.                                                         *)
(*                                                                         *)
(* Scores are Python floats in the source.  The model holds every score    *)
(* as an integer number of 1/Scale points, so 100.0 is 100 * Scale.  All   *)
(* input values below are chosen so that every division of the source is   *)
(* exact at this resolution.                                               *)
(***************************************************************************)
EXTENDS Integers, Sequences, FiniteSets, TLC

\* ---------------------------------------------------------------- bounds
\* largest count of simulation phrases handed to the scorer directly
MaxPhrases == 61

\* longest list of scalars inside a map handed to the cleaner
MaxItems == 2

\* longest list of nested values inside a map handed to the cleaner
MaxOuter == 2

\* ------------------------------------------------------- score arithmetic
Scale == 600

Pts(n) == n * Scale

Min(a, b) == IF a <= b THEN a ELSE b

\* ------------------------------------------------------ validation_levels
LevelOrder == <<"STRICT", "MODERATE", "FLEXIBLE", "EMERGENCY">>

LevelNames == {LevelOrder[i] : i \in 1..Len(LevelOrder)}

validation_levels ==
    [l \in LevelNames |->
        CASE l = "STRICT" ->
               [min_content_length |-> 5000, min_sources |-> 5, min_insights |-> 10,
                min_quality_score |-> Pts(80), simulation_tolerance |-> 0]
          [] l = "MODERATE" ->
               [min_content_length |-> 2000, min_sources |-> 3, min_insights |-> 5,
                min_quality_score |-> Pts(60), simulation_tolerance |-> 5]
          [] l = "FLEXIBLE" ->
               [min_content_length |-> 500, min_sources |-> 1, min_insights |-> 3,
                min_quality_score |-> Pts(40), simulation_tolerance |-> 10]
          [] l = "EMERGENCY" ->
               [min_content_length |-> 100, min_sources |-> 0, min_insights |-> 1,
                min_quality_score |-> Pts(20), simulation_tolerance |-> 20]]

\* ------------------------------------------------------- analysis inputs
\* An analysis is described by what the scorers read of it:
\*   avatar    avatar_ultra_detalhado: absent/empty, or a non-empty map with
\*             n of the four named subsections non-trivial
\*   optional  how many of drivers_mentais_customizados,
\*             provas_visuais_sugeridas, sistema_anti_objecao,
\*             pre_pitch_invisivel are present and truthy
\*   research  pesquisa_web_massiva: absent/empty, a truthy non-map, or a map
\*             whose estatisticas carry the three numbers
\*   insights  insights_exclusivos: absent/empty, a truthy non-list, a list of
\*             n strings of which long are longer than 50 characters, or a
\*             list of n entries holding a non-string (an integer)
\*   phrases   occurrences of the simulation indicators in the serialised map
AvatarValues ==
    {[kind |-> "absent", n |-> 0]} \cup {[kind |-> "dict", n |-> k] : k \in {0, 2, 4}}

OptionalValues == {0, 4}

ResearchValues ==
    {[kind |-> "absent", total_conteudo |-> 0, fontes_unicas |-> 0, qualidade_media |-> 0],
     [kind |-> "notmap", total_conteudo |-> 0, fontes_unicas |-> 0, qualidade_media |-> 0]}
    \cup
    {[kind |-> "dict", total_conteudo |-> c, fontes_unicas |-> s, qualidade_media |-> q] :
        c \in {0, 250, 5000}, s \in {0, 2, 5}, q \in {0 - 500, 100, 1000}}

InsightsValues ==
    {[kind |-> "absent", n |-> 0, long |-> 0],
     [kind |-> "notlist", n |-> 0, long |-> 0],
     [kind |-> "nonstr", n |-> 1, long |-> 0],
     [kind |-> "list", n |-> 3, long |-> 1],
     [kind |-> "list", n |-> 10, long |-> 0],
     [kind |-> "list", n |-> 10, long |-> 10]}

PhraseValues == {0, 12}

Analyses ==
    [avatar : AvatarValues, optional : OptionalValues, research : ResearchValues,
     insights : InsightsValues, phrases : PhraseValues]

EmptyAnalysis ==
    [avatar |-> [kind |-> "absent", n |-> 0], optional |-> 0,
     research |-> [kind |-> "absent", total_conteudo |-> 0, fontes_unicas |-> 0,
                   qualidade_media |-> 0],
     insights |-> [kind |-> "absent", n |-> 0, long |-> 0], phrases |-> 0]

\* ------------------------------------------------------ component scorers
\* A scorer either returns a score or raises; exc names the exception type.
Returns(s) == [raised |-> FALSE, score |-> s, exc |-> ""]

Raises(e) == [raised |-> TRUE, score |-> 0, exc |-> e]

_validate_structure_flexible(a, thresholds) ==
    LET essential == IF a.avatar.kind # "absent" THEN Pts(50) ELSE 0
        bonus_per_section == Pts(50) \div 5
        present == a.optional + (IF a.insights.kind # "absent" THEN 1 ELSE 0)
    IN  Returns(Min(essential + present * bonus_per_section, Pts(100)))

_validate_research_flexible(a, thresholds) ==
    LET r == a.research
        content == IF r.total_conteudo >= thresholds.min_content_length THEN Pts(30)
                   ELSE IF r.total_conteudo > 0
                        THEN (r.total_conteudo * Pts(30)) \div thresholds.min_content_length
                        ELSE 0
        sources == IF r.fontes_unicas >= thresholds.min_sources THEN Pts(30)
                   ELSE IF r.fontes_unicas > 0
                        THEN (r.fontes_unicas * Pts(30)) \div thresholds.min_sources
                        ELSE 0
        quality == (r.qualidade_media * Pts(20)) \div 100
    IN  CASE r.kind = "absent" -> Returns(Pts(20))
          [] r.kind = "notmap" -> Raises("AttributeError")
          [] OTHER -> Returns(Min(Pts(20) + content + sources + quality, Pts(100)))

_validate_avatar_flexible(a, thresholds) ==
    LET section_score == Pts(80) \div 4
    IN  IF a.avatar.kind = "absent" THEN Returns(0)
        ELSE Returns(Min(Pts(20) + a.avatar.n * section_score, Pts(100)))

\* the partial credit for quantity computed with the ratio upside down
_validate_insights_flexible_RatioInverted(a, thresholds) ==
    LET i == a.insights
        quantity == IF i.n >= thresholds.min_insights THEN Pts(50)
                    ELSE IF i.n > 0 THEN (thresholds.min_insights * Pts(50)) \div i.n
                         ELSE 0
        quality == IF i.long > 0 THEN (i.long * Pts(40)) \div i.n ELSE 0
    IN  CASE i.kind \in {"absent", "notlist"} -> Returns(Pts(10))
          [] i.kind = "nonstr" -> Raises("TypeError")
          [] OTHER -> Returns(Min(Pts(10) + quantity + quality, Pts(100)))

_validate_insights_flexible(a, thresholds) ==
    LET i == a.insights
        quantity == IF i.n >= thresholds.min_insights THEN Pts(50)
                    ELSE IF i.n > 0 THEN (i.n * Pts(50)) \div thresholds.min_insights
                         ELSE 0
        quality == IF i.long > 0 THEN (i.long * Pts(40)) \div i.n ELSE 0
    IN  CASE i.kind \in {"absent", "notlist"} -> Returns(Pts(10))
          [] i.kind = "nonstr" -> Raises("TypeError")
          [] OTHER -> Returns(Min(Pts(10) + quantity + quality, Pts(100)))

\* the two middle tiers exchanged
SimulationTier_TiersSwapped(simulation_count, tolerance) ==
    IF simulation_count <= tolerance THEN Pts(100)
    ELSE IF simulation_count <= tolerance * 2 THEN Pts(40)
    ELSE IF simulation_count <= tolerance * 3 THEN Pts(70)
    ELSE Pts(10)

\* the third tier tested against twice the tolerance
SimulationTier_ThirdTierLost(simulation_count, tolerance) ==
    IF simulation_count <= tolerance THEN Pts(100)
    ELSE IF simulation_count <= tolerance * 2 THEN Pts(70)
    ELSE IF simulation_count <= tolerance * 2 THEN Pts(40)
    ELSE Pts(10)

\* lines 284-294: the four tiers applied to a count and a tolerance
SimulationTier(simulation_count, tolerance) ==
    IF simulation_count <= tolerance THEN Pts(100)
    ELSE IF simulation_count <= tolerance * 2 THEN Pts(70)
    ELSE IF simulation_count <= tolerance * 3 THEN Pts(40)
    ELSE Pts(10)

\* The module imports logging, time, typing, datetime and two names of
\* services.auto_save_manager; the name json is bound nowhere in it.
JsonIsBound == FALSE

\* line 277 evaluates json.dumps before anything else is computed
_detect_simulation_with_tolerance(a, thresholds) ==
    IF ~JsonIsBound THEN Raises("NameError")
    ELSE Returns(SimulationTier(a.phrases, thresholds.simulation_tolerance))

ComponentOrder == <<"structure", "research", "avatar", "insights", "simulation">>

ComponentNames == {ComponentOrder[i] : i \in 1..Len(ComponentOrder)}

Scorer(c, a, thresholds) ==
    CASE c = "structure" -> _validate_structure_flexible(a, thresholds)
      [] c = "research" -> _validate_research_flexible(a, thresholds)
      [] c = "avatar" -> _validate_avatar_flexible(a, thresholds)
      [] c = "insights" -> _validate_insights_flexible(a, thresholds)
      [] c = "simulation" -> _detect_simulation_with_tolerance(a, thresholds)

RECURSIVE SumSeq(_)
SumSeq(s) == IF s = <<>> THEN 0 ELSE Head(s) + SumSeq(Tail(s))

\* ------------------------------------------------------ _validate_at_level
\* The scorers run in ComponentOrder inside one try block; the first one to
\* raise ends the block, leaving the scores stored so far, quality_score 0.0
\* and valid False.
_validate_at_level(a, level) ==
    LET thresholds == validation_levels[level]
        res == [i \in 1..5 |-> Scorer(ComponentOrder[i], a, thresholds)]
        failed == {i \in 1..5 : res[i].raised}
        first == IF failed = {} THEN 6
                 ELSE CHOOSE i \in failed : \A j \in failed : i <= j
        stored == {ComponentOrder[i] : i \in 1..(first - 1)}
        scoreOf(c) == (CHOOSE i \in 1..5 : ComponentOrder[i] = c)
        scores == [i \in 1..5 |-> res[i].score]
        quality == SumSeq(scores) \div Len(scores)
    IN  IF failed = {}
        THEN [valid |-> quality >= thresholds.min_quality_score,
              level |-> level,
              quality_score |-> quality,
              errors |-> <<>>,
              component_scores |-> [c \in stored |-> res[scoreOf(c)].score],
              primary_reason |-> IF quality >= thresholds.min_quality_score
                                 THEN "" ELSE "Score"]
        ELSE [valid |-> FALSE,
              level |-> level,
              quality_score |-> 0,
              errors |-> <<res[first].exc>>,
              component_scores |-> [c \in stored |-> res[scoreOf(c)].score],
              primary_reason |-> "Erro tecnico"]

\* ---------------------------------------- clean_analysis_for_output_flexible
\* Python values: strings are sequences of characters, maps are sequences of
\* entries (a string key and a value) in insertion order.
StrVal(s) == [t |-> "str", s |-> s, n |-> 0, items |-> <<>>]

IntVal(n) == [t |-> "int", s |-> <<>>, n |-> n, items |-> <<>>]

BoolVal(b) == [t |-> "bool", s |-> <<>>, n |-> IF b THEN 1 ELSE 0, items |-> <<>>]

ListVal(items) == [t |-> "list", s |-> <<>>, n |-> 0, items |-> items]

DictVal(items) == [t |-> "dict", s |-> <<>>, n |-> 0, items |-> items]

Entry(key, value) == [t |-> "entry", s |-> key, n |-> 0, items |-> <<value>>]

KeyOf(e) == e.s

ValueOf(e) == e.items[1]

LowerCase == <<"a", "b", "c", "d", "e", "f", "g", "h", "i", "j", "k", "l", "m", "n", "o", "p", "q", "r", "s", "t", "u", "v", "w", "x", "y", "z">>

UpperCase == <<"A", "B", "C", "D", "E", "F", "G", "H", "I", "J", "K", "L", "M", "N", "O", "P", "Q", "R", "S", "T", "U", "V", "W", "X", "Y", "Z">>

\* str.upper() on the characters the model uses
upper(s) ==
    [i \in 1..Len(s) |->
        IF \E j \in 1..Len(LowerCase) : LowerCase[j] = s[i]
        THEN UpperCase[CHOOSE j \in 1..Len(LowerCase) : LowerCase[j] = s[i]]
        ELSE s[i]]

\* the Python test: needle in hay
In(needle, hay) ==
    \E i \in 1..(Len(hay) - Len(needle) + 1) :
        SubSeq(hay, i, i + Len(needle) - 1) = needle

RECURSIVE Digits(_)
Digits(n) ==
    LET d == <<"0", "1", "2", "3", "4", "5", "6", "7", "8", "9">>
    IN  IF n < 10 THEN <<d[n + 1]>> ELSE Digits(n \div 10) \o <<d[(n % 10) + 1]>>

\* repr() of a value, as str() of a list or a map shows its elements
RECURSIVE repr(_), ReprItems(_), ReprEntries(_)
repr(v) ==
    CASE v.t = "str" -> <<"'">> \o v.s \o <<"'">>
      [] v.t = "int" -> Digits(v.n)
      [] v.t = "bool" -> IF v.n = 1 THEN <<"T", "r", "u", "e">> ELSE <<"F", "a", "l", "s", "e">>
      [] v.t = "list" -> <<"[">> \o ReprItems(v.items) \o <<"]">>
      [] v.t = "dict" -> <<"{">> \o ReprEntries(v.items) \o <<"}">>

ReprItems(items) ==
    IF items = <<>> THEN <<>>
    ELSE IF Len(items) = 1 THEN repr(items[1])
    ELSE repr(items[1]) \o <<",", " ">> \o ReprItems(Tail(items))

ReprEntries(items) ==
    LET entry(e) == <<"'">> \o KeyOf(e) \o <<"'", ":", " ">> \o repr(ValueOf(e))
    IN  IF items = <<>> THEN <<>>
        ELSE IF Len(items) = 1 THEN entry(items[1])
        ELSE entry(items[1]) \o <<",", " ">> \o ReprEntries(Tail(items))

\* str() of a value
str(v) == IF v.t = "str" THEN v.s ELSE repr(v)

invalid_indicators == {<<"E", "R", "R", "O", "_">>, <<"F", "A", "L", "H", "A", "_">>, <<"I", "N", "V", "A", "L", "I", "D", "_">>}

\* any(indicator in s.upper() for indicator in invalid_indicators)
Flagged(s) == \E indicator \in invalid_indicators : In(indicator, upper(s))

RECURSIVE clean_recursive(_), CleanEntries(_), CleanItems(_), CleanItems_SkipAfterRemoval(_)
\* a removal makes the walk jump over the element that follows it
CleanItems_SkipAfterRemoval(items) ==
    IF items = <<>> THEN <<>>
    ELSE IF Flagged(str(items[1]))
         THEN IF Len(items) = 1 THEN <<>>
              ELSE <<clean_recursive(items[2])>>
                       \o CleanItems_SkipAfterRemoval(Tail(Tail(items)))
         ELSE <<clean_recursive(items[1])>> \o CleanItems_SkipAfterRemoval(Tail(items))

\* lines 376-377: the list comprehension
CleanItems(items) ==
    IF items = <<>> THEN <<>>
    ELSE IF Flagged(str(items[1])) THEN CleanItems(Tail(items))
         ELSE <<clean_recursive(items[1])>> \o CleanItems(Tail(items))

\* lines 373-374: the dict comprehension; the test reads the key only
CleanEntries(items) ==
    IF items = <<>> THEN <<>>
    ELSE IF Flagged(KeyOf(items[1])) THEN CleanEntries(Tail(items))
         ELSE <<Entry(KeyOf(items[1]), clean_recursive(ValueOf(items[1])))>>
                  \o CleanEntries(Tail(items))

clean_recursive(obj) ==
    CASE obj.t = "dict" -> DictVal(CleanEntries(obj.items))
      [] obj.t = "list" -> ListVal(CleanItems(obj.items))
      [] OTHER -> obj

\* d[key] = value on a map
SetItem(d, key, value) ==
    IF \E i \in 1..Len(d.items) : KeyOf(d.items[i]) = key
    THEN DictVal([i \in 1..Len(d.items) |->
                     IF KeyOf(d.items[i]) = key THEN Entry(key, value) ELSE d.items[i]])
    ELSE DictVal(Append(d.items, Entry(key, value)))

K_validation_metadata == <<"v", "a", "l", "i", "d", "a", "t", "i", "o", "n", "_", "m", "e", "t", "a", "d", "a", "t", "a">>

K_cleaned_at == <<"c", "l", "e", "a", "n", "e", "d", "_", "a", "t">>

K_original_size == <<"o", "r", "i", "g", "i", "n", "a", "l", "_", "s", "i", "z", "e">>

K_cleaned_size == <<"c", "l", "e", "a", "n", "e", "d", "_", "s", "i", "z", "e">>

K_cleaning_level == <<"c", "l", "e", "a", "n", "i", "n", "g", "_", "l", "e", "v", "e", "l">>

K_data_preserved == <<"d", "a", "t", "a", "_", "p", "r", "e", "s", "e", "r", "v", "e", "d">>

K_simulation_tolerance ==
    <<"s", "i", "m", "u", "l", "a", "t", "i", "o", "n", "_", "t", "o", "l", "e", "r", "a", "n", "c", "e">>

V_flexible == <<"f", "l", "e", "x", "i", "b", "l", "e">>

V_high == <<"h", "i", "g", "h">>

\* datetime.now().isoformat(): 26 characters, different at each call
isoformat(tick) == <<"2", "0", "2", "6", "-", "1", "1", "-", "0", "5", "T", "0", "5", ":", "2", "7", ":", "3", "1", ".", "1", "2", "3", "4", "5">> \o Digits(tick % 10)

\* lines 366-393
clean_analysis_for_output_flexible(analysis_, tick) ==
    LET cleaned_ == clean_recursive(analysis_)
    IN  SetItem(cleaned_, K_validation_metadata,
            DictVal(<<Entry(K_cleaned_at, StrVal(isoformat(tick))),
                      Entry(K_cleaning_level, StrVal(V_flexible)),
                      Entry(K_original_size, IntVal(Len(str(analysis_)))),
                      Entry(K_cleaned_size, IntVal(Len(str(cleaned_)))),
                      Entry(K_data_preserved, BoolVal(TRUE)),
                      Entry(K_simulation_tolerance, StrVal(V_high))>>))


\* -------------------------------------------------- terminal verdict makers
_get_level_recommendation(level) ==
    CASE level = "STRICT" -> "EXCELENTE"
      [] level = "MODERATE" -> "BOM"
      [] level = "FLEXIBLE" -> "ACEITAVEL"
      [] level = "EMERGENCY" -> "EMERGENCIA"
      [] OTHER -> "Analise validada"

\* the override verdict tagged with the name of the last profile
EmergencyValidation_ProfileTag ==
    [valid |-> TRUE,
     level |-> "EMERGENCY",
     quality_score |-> Pts(25),
     errors |-> <<>>,
     warnings |-> <<"Validacao em modo de emergencia",
                    "Qualidade pode estar comprometida",
                    "Dados intermediarios preservados">>,
     component_scores |-> [c \in ComponentNames |-> Pts(25)],
     primary_reason |-> "Modo de emergencia ativado",
     recommendation |-> "EMERGENCIA: Configure APIs e reexecute",
     emergency_mode |-> TRUE,
     data_preserved |-> TRUE,
     can_continue |-> TRUE]

\* lines 313-336: the dictionary _create_emergency_validation builds
EmergencyValidation ==
    [valid |-> TRUE,
     level |-> "EMERGENCY_OVERRIDE",
     quality_score |-> Pts(25),
     errors |-> <<>>,
     warnings |-> <<"Validacao em modo de emergencia",
                    "Qualidade pode estar comprometida",
                    "Dados intermediarios preservados">>,
     component_scores |-> [c \in ComponentNames |-> Pts(25)],
     primary_reason |-> "Modo de emergencia ativado",
     recommendation |-> "EMERGENCIA: Configure APIs e reexecute",
     emergency_mode |-> TRUE,
     data_preserved |-> TRUE,
     can_continue |-> TRUE]

\* the forced verdict carrying the scores of the emergency verdict
ForcedValidation_EmergencyScores(reason) ==
    [valid |-> TRUE,
     level |-> "FORCED_PASS",
     quality_score |-> Pts(25),
     errors |-> <<>>,
     warnings |-> <<reason>>,
     component_scores |-> [c \in ComponentNames |-> Pts(25)],
     primary_reason |-> reason,
     recommendation |-> "Validacao forcada - prosseguir com cautela",
     forced |-> TRUE]

\* lines 497-514: the dictionary force_validation_pass builds
ForcedValidation(reason) ==
    [valid |-> TRUE,
     level |-> "FORCED_PASS",
     quality_score |-> Pts(50),
     errors |-> <<>>,
     warnings |-> <<reason>>,
     component_scores |-> [c \in ComponentNames |-> Pts(50)],
     primary_reason |-> reason,
     recommendation |-> "Validacao forcada - prosseguir com cautela",
     forced |-> TRUE]

\* lines 76-78: an accepted per-profile result as it is returned
Approved(result, level) ==
    [valid |-> result.valid,
     level |-> result.level,
     quality_score |-> result.quality_score,
     errors |-> result.errors,
     component_scores |-> result.component_scores,
     primary_reason |-> result.primary_reason,
     validation_level |-> level,
     recommendation |-> _get_level_recommendation(level)]

NoVerdict == [level |-> "NONE"]

\* a subsection of a component map: absent, a list or a string of n entries,
\* or the number n
Sub(kind, n) == [kind |-> kind, n |-> n]

AbsentSub == Sub("absent", 0)

\* component_data of lines 395-400: a falsy value, a string or a list of n
\* entries, the number n, or a map with the subsections the bonuses read
Data(kind, n) ==
    [kind |-> kind, n |-> n, perfil |-> FALSE, dores |-> AbsentSub,
     desejos |-> AbsentSub, drivers |-> AbsentSub, other |-> FALSE]

NoComponent == [name |-> "", data |-> Data("empty", 0)]

Reasons == {"Forcado pelo usuario", "override"}

\* ------------------------------------------------------------------ state
VARIABLES
    op,         \* the entry point in progress: "none", "validate", "force"; "tiers"
                \* and "clean" when a pure function is exercised alone
    pc,         \* position inside it
    analysis,   \* its analysis argument
    idx,        \* validate: index into LevelOrder of the profile in turn
    attempts,   \* validate: the per-profile results computed so far
    handling,   \* validate: TRUE once the outer except block was entered
    verdict,    \* the dictionary being returned
    outcome,    \* "none", "returned" or "raised" (exception left the call)
    saved,      \* calls made to salvar_etapa / salvar_erro, in order
    scored,     \* applications of the tier expression: count, tolerance, score
    doc,        \* clean: the map handed to the first application
    cleaned,    \* clean: the results of the successive applications
    component   \* validate_component_individually: its name and data arguments

vars == <<op, pc, analysis, idx, attempts, handling, verdict, outcome, saved, scored,
          doc, cleaned, component>>

Init ==
    /\ op = "none"
    /\ pc = "idle"
    /\ analysis = EmptyAnalysis
    /\ idx = 1
    /\ attempts = <<>>
    /\ handling = FALSE
    /\ verdict = NoVerdict
    /\ outcome = "none"
    /\ saved = <<>>
    /\ scored = <<>>
    /\ doc = DictVal(<<>>)
    /\ cleaned = <<>>
    /\ component = NoComponent

\* a call to the auto-save collaborator: what was saved and whether it raised
Saved(name, ok) == [name |-> name, ok |-> ok]

\* ------------------------------------- validate_with_progressive_tolerance
ValidateCall ==
    /\ pc = "idle"
    /\ \E a \in Analyses : analysis' = a
    /\ op' = "validate"
    /\ pc' = "loop"
    /\ UNCHANGED <<idx, attempts, handling, verdict, outcome, saved, scored, doc, cleaned,
                   component>>

\* lines 69-80: one iteration up to the approval test
TryLevel ==
    /\ pc = "loop"
    /\ LET level == LevelOrder[idx]
           validation_result == _validate_at_level(analysis, level)
       IN  /\ attempts' = Append(attempts, validation_result)
           /\ IF validation_result.valid
              THEN /\ verdict' = Approved(validation_result, level)
                   /\ outcome' = "returned"
                   /\ pc' = "done"
              ELSE /\ pc' = "save_attempt"
                   /\ UNCHANGED <<verdict, outcome>>
    /\ UNCHANGED <<op, analysis, idx, handling, saved, scored, doc, cleaned,
                   component>>

\* a faulted attempt ends the loop instead of moving to the next profile
SaveAttemptOk_FaultEndsLoop ==
    /\ pc = "save_attempt"
    /\ saved' = Append(saved, Saved("validacao_tentativa", TRUE))
    /\ IF idx < Len(LevelOrder) /\ attempts[Len(attempts)].errors = <<>>
       THEN /\ idx' = idx + 1
            /\ pc' = "loop"
       ELSE /\ pc' = "emergency"
            /\ UNCHANGED idx
    /\ UNCHANGED <<op, analysis, attempts, handling, verdict, outcome, scored, doc, cleaned,
                   component>>

\* lines 83-87: salvar_etapa of the rejected attempt returns
SaveAttemptOk ==
    /\ pc = "save_attempt"
    /\ saved' = Append(saved, Saved("validacao_tentativa", TRUE))
    /\ IF idx < Len(LevelOrder)
       THEN /\ idx' = idx + 1
            /\ pc' = "loop"
       ELSE /\ pc' = "emergency"
            /\ UNCHANGED idx
    /\ UNCHANGED <<op, analysis, attempts, handling, verdict, outcome, scored, doc, cleaned,
                   component>>

\* lines 83-87 and 96: salvar_etapa raises inside the try block
SaveAttemptRaises ==
    /\ pc = "save_attempt"
    /\ saved' = Append(saved, Saved("validacao_tentativa", FALSE))
    /\ pc' = "except"
    /\ UNCHANGED <<op, analysis, idx, attempts, handling, verdict, outcome, scored, doc, cleaned,
                   component>>

\* lines 96-98: the outer handler; salvar_erro returns
ExceptSaveOk ==
    /\ pc = "except"
    /\ saved' = Append(saved, Saved("validacao_critica", TRUE))
    /\ handling' = TRUE
    /\ pc' = "emergency"
    /\ UNCHANGED <<op, analysis, idx, attempts, verdict, outcome, scored, doc, cleaned,
                   component>>

\* line 98: salvar_erro raises inside the handler, nothing catches it
ExceptSaveRaises ==
    /\ pc = "except"
    /\ saved' = Append(saved, Saved("validacao_critica", FALSE))
    /\ handling' = TRUE
    /\ outcome' = "raised"
    /\ pc' = "done"
    /\ UNCHANGED <<op, analysis, idx, attempts, verdict, scored, doc, cleaned,
                   component>>

\* lines 308-342 called from line 93 or 101; salvar_etapa returns
EmergencySaveOk ==
    /\ pc = "emergency"
    /\ saved' = Append(saved, Saved("validacao_emergencia", TRUE))
    /\ verdict' = EmergencyValidation
    /\ outcome' = "returned"
    /\ pc' = "done"
    /\ UNCHANGED <<op, analysis, idx, attempts, handling, scored, doc, cleaned,
                   component>>

\* line 339 raises: the call of line 93 is inside the try block, so the
\* handler of line 96 runs; the call of line 101 is inside the handler
EmergencySaveRaises ==
    /\ pc = "emergency"
    /\ saved' = Append(saved, Saved("validacao_emergencia", FALSE))
    /\ IF handling
       THEN /\ outcome' = "raised"
            /\ pc' = "done"
       ELSE /\ pc' = "except"
            /\ UNCHANGED outcome
    /\ UNCHANGED <<op, analysis, idx, attempts, handling, verdict, scored, doc, cleaned,
                   component>>

\* ---------------------------------------------------- force_validation_pass
ForceCall ==
    /\ pc = "idle"
    /\ \E a \in Analyses : analysis' = a
    /\ \E reason \in Reasons : verdict' = ForcedValidation(reason)
    /\ op' = "force"
    /\ pc' = "save_forced"
    /\ UNCHANGED <<idx, attempts, handling, outcome, saved, scored, doc, cleaned,
                   component>>

\* line 516 returns, line 518
ForcedSaveOk ==
    /\ pc = "save_forced"
    /\ saved' = Append(saved, Saved("validacao_forcada", TRUE))
    /\ outcome' = "returned"
    /\ pc' = "done"
    /\ UNCHANGED <<op, analysis, idx, attempts, handling, verdict, scored, doc, cleaned,
                   component>>

\* line 516 raises; force_validation_pass has no handler
ForcedSaveRaises ==
    /\ pc = "save_forced"
    /\ saved' = Append(saved, Saved("validacao_forcada", FALSE))
    /\ outcome' = "raised"
    /\ pc' = "done"
    /\ UNCHANGED <<op, analysis, idx, attempts, handling, verdict, scored, doc, cleaned,
                   component>>

\* ----------------------------------------------- should_generate_pdf_flexible
\* insights_exclusivos as line 356-357 reads it: besides the shapes of
\* InsightsValues, a value without a length: None (falsy) or a number
PdfInsightsValues ==
    InsightsValues
    \cup {[kind |-> "none", n |-> 0, long |-> 0], [kind |-> "number", n |-> 0, long |-> 0]}

PdfAnalyses ==
    [avatar : AvatarValues, optional : OptionalValues, research : ResearchValues,
     insights : PdfInsightsValues, phrases : {0}]

\* len(insights) of line 357; "absent" stands for a missing key (the default
\* []) and for an empty list, a truthy non-list with a length has one or more
\* elements
InsightsLen(i) ==
    CASE i.kind = "absent" -> 0
      [] i.kind = "notlist" -> 1
      [] OTHER -> i.n

PdfAnswer(generate, reason) == [generate |-> generate, reason |-> reason]

\* lines 344-361; raised tells whether len() raised TypeError
should_generate_pdf_flexible(a) ==
    IF a = EmptyAnalysis
    THEN [raised |-> FALSE, value |-> PdfAnswer(FALSE, "Analise vazia")]
    ELSE IF a.avatar.kind = "absent"
    THEN [raised |-> FALSE, value |-> PdfAnswer(FALSE, "Avatar ausente")]
    ELSE IF a.insights.kind \in {"none", "number"}
    THEN [raised |-> TRUE, value |-> PdfAnswer(FALSE, "TypeError")]
    ELSE IF InsightsLen(a.insights) < 1
    THEN [raised |-> FALSE, value |-> PdfAnswer(FALSE, "Nenhum insight")]
    ELSE [raised |-> FALSE, value |-> PdfAnswer(TRUE, "Analise adequada para PDF")]

PdfCall ==
    /\ pc = "idle"
    /\ \E a \in PdfAnalyses :
          LET r == should_generate_pdf_flexible(a)
          IN  /\ analysis' = a
              /\ verdict' = r.value
              /\ outcome' = IF r.raised THEN "raised" ELSE "returned"
    /\ op' = "pdf"
    /\ pc' = "done"
    /\ UNCHANGED <<idx, attempts, handling, saved, scored, doc, cleaned, component>>

\* ---- validate_component_individually (lines 395-490) ----

ComponentKeys ==
    {"avatar_ultra_detalhado", "drivers_mentais_customizados", "insights_exclusivos", "outro"}

SubValues ==
    {AbsentSub} \cup [kind : {"list", "str"}, n : {0, 2, 3}] \cup [kind : {"number"}, n : {0, 5}]

DriverValues == {AbsentSub, Sub("list", 1), Sub("list", 2), Sub("str", 2)}

ComponentData ==
    {Data("empty", 0), Data("str", 10), Data("str", 60), Data("number", 7)}
    \cup {Data("list", n) : n \in {1, 2, 3, 5}}
    \cup [kind : {"dict"}, n : {0}, perfil : BOOLEAN, dores : SubValues,
          desejos : SubValues, drivers : DriverValues, other : BOOLEAN]

\* bool(v) and hasattr(v, '__len__') of a subsection
Truthy(v) == v.kind # "absent" /\ v.n > 0
HasLen(v) == v.kind \in {"list", "str"}

\* len(component_data) of a map
DictLen(d) ==
    (IF d.perfil THEN 1 ELSE 0) + (IF d.dores.kind # "absent" THEN 1 ELSE 0)
    + (IF d.desejos.kind # "absent" THEN 1 ELSE 0)
    + (IF d.drivers.kind # "absent" THEN 1 ELSE 0) + (IF d.other THEN 1 ELSE 0)

\* bool(component_data)
DataTruthy(d) ==
    CASE d.kind = "empty" -> FALSE
      [] d.kind = "dict" -> DictLen(d) > 0
      [] OTHER -> d.n > 0

\* lines 451, 453: v and len(v) >= 3; len of a number raises TypeError
LenBonus(v) ==
    IF ~Truthy(v) THEN Returns(0)
    ELSE IF ~HasLen(v) THEN Raises("TypeError")
    ELSE Returns(IF v.n >= 3 THEN Pts(10) ELSE 0)

_validate_avatar_specific(d) ==
    IF d.kind # "dict" THEN Returns(0)
    ELSE LET perfil == IF d.perfil THEN Pts(5) ELSE 0
             dores == LenBonus(d.dores)
             desejos == LenBonus(d.desejos)
         IN  IF dores.raised THEN dores
             ELSE IF desejos.raised THEN desejos
             ELSE Returns(perfil + dores.score + desejos.score)

_validate_drivers_specific(d) ==
    IF ~DataTruthy(d) THEN Returns(0)
    ELSE IF d.kind = "dict" /\ d.drivers.kind # "absent"
    THEN Returns(IF d.drivers.kind = "list" /\ d.drivers.n >= 2 THEN Pts(15) ELSE 0)
    ELSE IF d.kind = "list" /\ d.n >= 2 THEN Returns(Pts(15))
    ELSE Returns(0)

_validate_insights_specific(d) ==
    IF d.kind # "list" THEN Returns(0)
    ELSE IF d.n >= 5 THEN Returns(Pts(15))
    ELSE IF d.n >= 3 THEN Returns(Pts(10))
    ELSE IF d.n >= 1 THEN Returns(Pts(5))
    ELSE Returns(0)

ComponentResult(valid, score, reason) ==
    [valid |-> valid, score |-> score, reason |-> reason, can_continue |-> TRUE]

validate_component_individually(name, d) ==
    IF ~DataTruthy(d)
    THEN [raised |-> FALSE, value |-> ComponentResult(FALSE, 0, "Componente vazio")]
    ELSE LET base == Pts(50)
             basic == IF \/ d.kind = "dict" /\ DictLen(d) > 0
                         \/ d.kind = "list" /\ d.n > 0
                         \/ d.kind = "str" /\ d.n > 50
                      THEN Pts(25) ELSE 0
             bonus == CASE name = "avatar_ultra_detalhado" -> _validate_avatar_specific(d)
                        [] name = "drivers_mentais_customizados" -> _validate_drivers_specific(d)
                        [] name = "insights_exclusivos" -> _validate_insights_specific(d)
                        [] OTHER -> Returns(0)
             score == base + basic + bonus.score
         IN  IF bonus.raised
             THEN [raised |-> TRUE, value |-> ComponentResult(FALSE, 0, bonus.exc)]
             ELSE [raised |-> FALSE,
                   value |-> ComponentResult(score >= Pts(40), Min(score, Pts(100)), "Score")]

ComponentCall ==
    /\ pc = "idle"
    /\ \E name \in ComponentKeys, d \in ComponentData :
          LET r == validate_component_individually(name, d)
          IN  /\ component' = [name |-> name, data |-> d]
              /\ verdict' = r.value
              /\ outcome' = IF r.raised THEN "raised" ELSE "returned"
    /\ op' = "component"
    /\ pc' = "done"
    /\ UNCHANGED <<analysis, idx, attempts, handling, saved, scored, doc, cleaned>>


\* --------------------------------- the tiers of lines 284-294 taken alone
\* The tier expression as a function of simulation_count and tolerance,
\* applied twice in a row so that two results can be compared.
ApplyTier ==
    /\ op = "tiers"
    /\ Len(scored) < 2
    /\ \E count \in 0..MaxPhrases, level \in LevelNames :
          LET tolerance == validation_levels[level].simulation_tolerance
          IN  scored' = Append(scored,
                           [count |-> count, tolerance |-> tolerance,
                            score |-> SimulationTier(count, tolerance)])
    /\ UNCHANGED <<op, pc, analysis, idx, attempts, handling, verdict, outcome, saved, doc,
                   cleaned, component>>

InitTiers ==
    /\ op = "tiers"
    /\ pc = "idle"
    /\ analysis = EmptyAnalysis
    /\ idx = 1
    /\ attempts = <<>>
    /\ handling = FALSE
    /\ verdict = NoVerdict
    /\ outcome = "none"
    /\ saved = <<>>
    /\ scored = <<>>
    /\ doc = DictVal(<<>>)
    /\ cleaned = <<>>
    /\ component = NoComponent

NextTiers == ApplyTier

SpecTiers == InitTiers /\ [][NextTiers]_vars

\* ------------------------------- clean_analysis_for_output_flexible inputs
GoodKey == <<"a">>

OtherKey == <<"b">>

BadKey == <<"F", "a", "l", "h", "a", "_", "k">>

Leaves == {StrVal(<<"o", "k">>), StrVal(<<"e", "r", "r", "o", "_", "x">>)}

SeqsUpTo(S, n) == UNION {[1..k -> S] : k \in 0..n}

InnerValues ==
    Leaves
    \cup {ListVal(q) : q \in SeqsUpTo(Leaves, MaxItems)}
    \cup {DictVal(<<>>)}
    \cup {DictVal(<<Entry(k, v)>>) : k \in {GoodKey, BadKey}, v \in Leaves}
    \cup {DictVal(<<Entry(GoodKey, v), Entry(BadKey, w)>>) : v \in Leaves, w \in Leaves}

OuterValues ==
    InnerValues
    \cup {ListVal(q) : q \in SeqsUpTo(InnerValues, MaxOuter)}
    \cup {DictVal(<<Entry(OtherKey, v)>>) : v \in InnerValues}

Documents ==
    {DictVal(<<>>)}
    \cup {DictVal(<<Entry(GoodKey, v)>>) : v \in OuterValues}
    \cup {DictVal(<<Entry(BadKey, StrVal(<<"o", "k">>)), Entry(GoodKey, v)>>) :
              v \in InnerValues}

\* the first application, to a map of the caller
CleanCall ==
    /\ op = "clean"
    /\ cleaned = <<>>
    /\ component = NoComponent
    /\ \E d \in Documents :
          /\ doc' = d
          /\ cleaned' = <<clean_analysis_for_output_flexible(d, 1)>>
    /\ UNCHANGED <<op, pc, analysis, idx, attempts, handling, verdict, outcome, saved,
                   scored, component>>

\* the second application, to the map the first one returned
CleanAgain ==
    /\ op = "clean"
    /\ Len(cleaned) = 1
    /\ cleaned' = Append(cleaned, clean_analysis_for_output_flexible(cleaned[1], 2))
    /\ UNCHANGED <<op, pc, analysis, idx, attempts, handling, verdict, outcome, saved,
                   scored, doc, component>>

InitClean ==
    /\ op = "clean"
    /\ pc = "idle"
    /\ analysis = EmptyAnalysis
    /\ idx = 1
    /\ attempts = <<>>
    /\ handling = FALSE
    /\ verdict = NoVerdict
    /\ outcome = "none"
    /\ saved = <<>>
    /\ scored = <<>>
    /\ doc = DictVal(<<>>)
    /\ cleaned = <<>>
    /\ component = NoComponent

NextClean ==
    \/ CleanCall
    \/ CleanAgain

SpecClean == InitClean /\ [][NextClean]_vars

Next ==
    \/ PdfCall
    \/ ComponentCall
    \/ ValidateCall
    \/ TryLevel
    \/ SaveAttemptOk
    \/ SaveAttemptRaises
    \/ ExceptSaveOk
    \/ ExceptSaveRaises
    \/ EmergencySaveOk
    \/ EmergencySaveRaises
    \/ ForceCall
    \/ ForcedSaveOk
    \/ ForcedSaveRaises

Spec == Init /\ [][Next]_vars

TypeOK ==
    /\ op \in {"none", "validate", "force", "tiers", "clean", "pdf", "component"}
    /\ outcome \in {"none", "returned", "raised"}
    /\ idx \in 1..Len(LevelOrder)

\* =================================================================== claims
\* every call of the auto-save collaborator made so far returned
AllSavesOk == \A i \in 1..Len(saved) : saved[i].ok

\* the four scorers that precede the simulation scorer all return for a
WellFormed(a) == a.research.kind # "notmap" /\ a.insights.kind # "nonstr"

\* the value line 147 assigns to quality_score when the five scorers return
\* the scores their formulas give for a (the fifth from the tiers of lines
\* 284-294 applied to the phrase count of a)
ScoredQuality(a, level) ==
    LET thresholds == validation_levels[level]
    IN  SumSeq(<<_validate_structure_flexible(a, thresholds).score,
                 _validate_research_flexible(a, thresholds).score,
                 _validate_avatar_flexible(a, thresholds).score,
                 _validate_insights_flexible(a, thresholds).score,
                 SimulationTier(a.phrases, thresholds.simulation_tolerance)>>) \div 5

MeetsProfile(a, i) ==
    ScoredQuality(a, LevelOrder[i]) >= validation_levels[LevelOrder[i]].min_quality_score

\* what a verdict decides: the fields a caller acts on
Decision(v) ==
    [valid |-> v.valid, level |-> v.level, quality_score |-> v.quality_score,
     component_scores |-> v.component_scores]

\* ---- the loop of lines 69-94 on attempts whose five scorers return ----
\* The result lines 134-155 build for a once line 277 returns its tier score:
\* the five scores, their mean and the approval test of line 150. An analysis
\* on which a section scorer raises is handled as in _validate_at_level.
ScoredAttempt(a, level) ==
    IF ~WellFormed(a) THEN _validate_at_level(a, level)
    ELSE LET thresholds == validation_levels[level]
             quality == ScoredQuality(a, level)
         IN  [valid |-> quality >= thresholds.min_quality_score,
              level |-> level,
              quality_score |-> quality,
              errors |-> <<>>,
              component_scores |->
                  [c \in ComponentNames |->
                      IF c = "simulation"
                      THEN SimulationTier(a.phrases, thresholds.simulation_tolerance)
                      ELSE Scorer(c, a, thresholds).score],
              primary_reason |-> IF quality >= thresholds.min_quality_score
                                 THEN "" ELSE "Score"]

\* lines 69-80 on such an attempt
TryLevelScored ==
    /\ pc = "loop"
    /\ LET level == LevelOrder[idx]
           validation_result == ScoredAttempt(analysis, level)
       IN  /\ attempts' = Append(attempts, validation_result)
           /\ IF validation_result.valid
              THEN /\ verdict' = Approved(validation_result, level)
                   /\ outcome' = "returned"
                   /\ pc' = "done"
              ELSE /\ pc' = "save_attempt"
                   /\ UNCHANGED <<verdict, outcome>>
    /\ UNCHANGED <<op, analysis, idx, handling, saved, scored, doc, cleaned,
                   component>>

NextLoop ==
    \/ ValidateCall
    \/ TryLevelScored
    \/ SaveAttemptOk
    \/ SaveAttemptRaises
    \/ ExceptSaveOk
    \/ ExceptSaveRaises
    \/ EmergencySaveOk
    \/ EmergencySaveRaises
    \/ ForceCall
    \/ ForcedSaveOk
    \/ ForcedSaveRaises

SpecLoop == Init /\ [][NextLoop]_vars

\* how many calls of the auto-save collaborator carried this name
Count(name) == Cardinality({i \in 1..Len(saved) : saved[i].name = name})

\* C1: every call of validate_with_progressive_tolerance ends by returning a
\* verdict whose valid field is true; no call ends by propagating an
\* exception.
C1_AlwaysReturnsValid ==
    (op = "validate" /\ pc = "done") => (outcome = "returned" /\ verdict.valid)

\* C2: the returned level is the strictest profile whose min_quality_score
\* the quality score of the input reaches: an input that reaches the
\* threshold of profile i and of no stricter profile comes back with level i
\* (an input scoring 85 under STRICT comes back STRICT).
C2_StrictestSatisfiedProfileReturned ==
    (op = "validate" /\ outcome = "returned" /\ AllSavesOk /\ WellFormed(analysis)) =>
        \A i \in 1..Len(LevelOrder) :
            (MeetsProfile(analysis, i) /\ \A j \in 1..(i - 1) : ~MeetsProfile(analysis, j))
                => (verdict.level = LevelOrder[i] /\ Len(attempts) = i)

\* C3: in every per-profile result and in every returned verdict,
\* quality_score lies in [0,100] and is the mean of exactly five component
\* scores, each in [0,100].
MeanOfFive(r) ==
    /\ DOMAIN r.component_scores = ComponentNames
    /\ \A c \in DOMAIN r.component_scores :
          r.component_scores[c] >= 0 /\ r.component_scores[c] <= Pts(100)
    /\ r.quality_score >= 0 /\ r.quality_score <= Pts(100)
    /\ Cardinality(DOMAIN r.component_scores) = 5
    /\ 5 * r.quality_score =
          SumSeq([i \in 1..5 |->
                     IF ComponentOrder[i] \in DOMAIN r.component_scores
                     THEN r.component_scores[ComponentOrder[i]] ELSE 0])

C3_QualityIsMeanOfFive ==
    /\ \A i \in 1..Len(attempts) : MeanOfFive(attempts[i])
    /\ (op = "validate" /\ outcome = "returned") => MeanOfFive(verdict)

\* C4: every verdict validate_with_progressive_tolerance returns for the
\* empty map has valid true, level EMERGENCY_OVERRIDE and quality_score
\* 25.0, and each of the four profiles rejects the empty map.
C4_EmptyMapEmergencyOverride ==
    /\ (op = "validate" /\ analysis = EmptyAnalysis) =>
          \A i \in 1..Len(attempts) : ~attempts[i].valid
    /\ (op = "validate" /\ analysis = EmptyAnalysis /\ outcome = "returned") =>
          /\ verdict.valid
          /\ verdict.level = "EMERGENCY_OVERRIDE"
          /\ verdict.quality_score = Pts(25)

C4_Witness ==
    /\ op = "validate" /\ analysis = EmptyAnalysis /\ outcome = "returned"
    /\ Len(attempts) = Len(LevelOrder)
    /\ AllSavesOk

\* the verdict validate_with_progressive_tolerance returns for a when every
\* save returns: the first accepting profile, else the emergency verdict
VerdictWhenSavesReturn(a) ==
    LET accepting == {i \in 1..Len(LevelOrder) : _validate_at_level(a, LevelOrder[i]).valid}
        first == CHOOSE i \in accepting : \A j \in accepting : i <= j
    IN  IF accepting = {} THEN Decision(EmergencyValidation)
        ELSE Decision(Approved(_validate_at_level(a, LevelOrder[first]), LevelOrder[first]))

\* C5: a raising salvar_etapa / salvar_erro never changes the outcome:
\* both operations still return, with the verdict they return when every
\* save succeeds.
C5_SavingFailureKeepsVerdict ==
    (pc = "done" /\ op \in {"validate", "force"}) =>
        /\ outcome = "returned"
        /\ op = "validate" => Decision(verdict) = VerdictWhenSavesReturn(analysis)
        /\ op = "force" => Decision(verdict) = Decision(ForcedValidation("r"))

\* C6: the profile levels are outcomes of the call: an input whose quality
\* score reaches the min_quality_score of some profile comes back with a
\* profile name as level (a looser one when STRICT rejects it) and that
\* profile's own recommendation.
C6_ProfileLevelsAreReturned ==
    (op = "validate" /\ outcome = "returned" /\ AllSavesOk /\ WellFormed(analysis)
        /\ \E i \in 1..Len(LevelOrder) : MeetsProfile(analysis, i)) =>
            /\ verdict.level \in LevelNames
            /\ verdict.recommendation = _get_level_recommendation(verdict.level)
            /\ ~MeetsProfile(analysis, 1) => verdict.level # "STRICT"

Without(d, key) == DictVal(SelectSeq(d.items, LAMBDA e : KeyOf(e) # key))

\* the entries the caller's map contributes to a result of the cleaner
DataOf(d) == Without(d, K_validation_metadata)

\* the validation_metadata entry of a result of the cleaner
MetaOf(d) ==
    ValueOf(d.items[CHOOSE i \in 1..Len(d.items) : KeyOf(d.items[i]) = K_validation_metadata])

\* a result of the cleaner with the given keys taken out of its metadata
RECURSIVE WithoutAll(_, _)
WithoutAll(d, keys) ==
    IF keys = <<>> THEN d ELSE WithoutAll(Without(d, Head(keys)), Tail(keys))

MetaLess(d, keys) == SetItem(d, K_validation_metadata, WithoutAll(MetaOf(d), keys))

\* no map entry at any depth of v has a key holding a banned marker or a
\* string value holding one
RECURSIVE NoFlaggedEntry(_)
NoFlaggedEntry(v) ==
    CASE v.t = "dict" ->
           \A i \in 1..Len(v.items) :
               LET e == v.items[i]
               IN  /\ ~Flagged(KeyOf(e))
                   /\ ValueOf(e).t = "str" => ~Flagged(ValueOf(e).s)
                   /\ NoFlaggedEntry(ValueOf(e))
      [] v.t = "list" -> \A i \in 1..Len(v.items) : NoFlaggedEntry(v.items[i])
      [] OTHER -> TRUE

\* C9: the cleaner removes, at every depth, every map entry whose key or
\* whose value holds a banned marker, and keeps every map entry that holds
\* none in place and unchanged.
C9_RemovesFlaggedEntries ==
    Len(cleaned) >= 1 =>
        /\ NoFlaggedEntry(DataOf(cleaned[1]))
        /\ \A i \in 1..Len(doc.items) :
              (~Flagged(KeyOf(doc.items[i])) /\ ~Flagged(str(ValueOf(doc.items[i]))))
                  => \E j \in 1..Len(cleaned[1].items) : cleaned[1].items[j] = doc.items[i]

\* C10 as stated: applying the cleaner to its own output gives the result
\* of the first application, the validation_metadata entry included and the
\* timestamp set aside.
C10_IdempotentAsStated ==
    Len(cleaned) = 2 =>
        MetaLess(cleaned[2], <<K_cleaned_at>>) = MetaLess(cleaned[1], <<K_cleaned_at>>)

\* C10 amended: applying the cleaner to its own output gives the result of
\* the first application except for original_size and cleaned_size of
\* validation_metadata (and the timestamp), which the second application
\* measures on the output of the first.
C10_IdempotentUpToSizes ==
    Len(cleaned) = 2 =>
        /\ MetaLess(cleaned[2], <<K_cleaned_at, K_original_size, K_cleaned_size>>)
              = MetaLess(cleaned[1], <<K_cleaned_at, K_original_size, K_cleaned_size>>)
        /\ DataOf(cleaned[2]) = DataOf(cleaned[1])

C10_Witness ==
    /\ Len(cleaned) = 2
    /\ DataOf(cleaned[1]) # doc
    /\ DataOf(cleaned[1]) # DictVal(<<>>)

\* C11: should_generate_pdf_flexible returns false when the avatar section
\* is absent or the insights list is empty, returns true for every other
\* analysis, and never raises.
C11_PdfDecision ==
    (op = "pdf" /\ pc = "done") =>
        /\ outcome = "returned"
        /\ verdict.generate =
              (analysis.avatar.kind # "absent" /\ analysis.insights.kind # "absent")

\* C12: every verdict force_validation_pass returns has valid true, level
\* FORCED_PASS, quality_score 50.0 and the five component scores at 50.0,
\* whatever the analysis and the reason.
C12_ForcedPassVerdict ==
    (op = "force" /\ outcome = "returned") =>
        /\ verdict.valid
        /\ verdict.level = "FORCED_PASS"
        /\ verdict.quality_score = Pts(50)
        /\ DOMAIN verdict.component_scores = ComponentNames
        /\ \A c \in ComponentNames : verdict.component_scores[c] = Pts(50)

C12_Witness ==
    /\ op = "force" /\ outcome = "returned"
    /\ analysis.research.kind = "notmap"
    /\ analysis.avatar.kind = "dict"
    /\ verdict.primary_reason = "override"

\* C13: validate_component_individually returns, for every component name and
\* every value, a result with can_continue true and a score within [0, 100],
\* and never raises.
C13_ComponentAlwaysContinues ==
    (op = "component" /\ pc = "done") =>
        /\ outcome = "returned"
        /\ verdict.can_continue
        /\ verdict.score >= 0
        /\ verdict.score <= Pts(100)

\* C14: a fault inside the evaluation of one profile is caught by
\* _validate_at_level: the attempt of that profile, and of that profile only,
\* carries the fault in its errors list with valid false, and validate goes
\* on to the next profile; the emergency override is reached from the loop
\* only after all four profiles were attempted.
C14_FaultStaysInItsProfile ==
    (op = "validate") =>
        /\ \A i \in 1..Len(attempts) :
              /\ attempts[i] = _validate_at_level(analysis, LevelOrder[i])
              /\ attempts[i].errors # <<>> =>
                    /\ ~attempts[i].valid
                    /\ Len(attempts[i].errors) = 1
        /\ (pc = "loop" /\ idx > 1) =>
              /\ Len(attempts) = idx - 1
              /\ attempts[idx - 1].level = LevelOrder[idx - 1]
        /\ (pc = "emergency" /\ ~handling) => Len(attempts) = Len(LevelOrder)

C14_Witness ==
    /\ op = "validate" /\ pc = "loop" /\ idx = 3
    /\ analysis.research.kind = "notmap"
    /\ attempts[1].errors = <<"AttributeError">>
    /\ attempts[2].errors = <<"AttributeError">>

\* C15: missing or wrong-typed sections never raise inside the scorers that
\* read them: every attempt stores the scores of the four section scorers,
\* and its errors list holds no entry of theirs (the only entry it may hold
\* is the NameError the simulation scorer raises at line 277).
C15_ScorersNeverFault ==
    (op = "validate") =>
        \A i \in 1..Len(attempts) :
            /\ {"structure", "research", "avatar", "insights"}
                  \subseteq DOMAIN attempts[i].component_scores
            /\ \A k \in 1..Len(attempts[i].errors) : attempts[i].errors[k] = "NameError"

====
